---- MODULE Spec2Model ----
(***************************************************************************)
(* PolitiRate, as state machines over the data each part reads and writes: *)
(* the notification audience filter (getActiveNotificationsForUser) and    *)
(* the notification functions of data/notifications.ts, the poll results   *)
(* display (PollResults), the Create Poll and Edit Poll pages, and voting  *)
(* through submit_poll_response of supabase_schema.sql.                    *)
(***************************************************************************)
EXTENDS Integers, Sequences, FiniteSets, TLC

\* A value that may be missing: None is JavaScript null or undefined (SQL NULL,
\* a property that is not set), Some(x) is the value x.
None == <<>>
Some(x) == <<x>>
IsSome(o) == o # None
Get(o) == o[1]

\* Largest age bound (age_min, age_max) a target filter carries in the model.
MaxAge == 1

\* Poll results: the most options a question lists, and the most votes an
\* option has.
MaxOptions == 2
MaxVotes == 2

VARIABLES
    notifications,  \* the notifications table, newest first
    users,          \* the users table, by id
    now,            \* the clock, in days
    ret,            \* the last call of getActiveNotificationsForUser and its value
    call,           \* the last call of another function of notifications.ts
    pollId,         \* PollResults: the pollId prop
    results,        \* PollResults: the results state
    isLoading,      \* PollResults: the isLoading state
    listed,         \* the result as getPollResults returned it
    view,           \* what the last render of PollResults produced
    form,           \* CreatePollPage: the values of the form
    created,        \* CreatePollPage: the argument of the last createPoll call
    route,          \* CreatePollPage: the page the router shows
    poll,           \* EditPollPage: the poll state
    editForm,       \* EditPollPage: the values of the form
    editLoading,    \* EditPollPage: the isLoading state
    editRoute,      \* EditPollPage: the page the router shows
    updated,        \* EditPollPage: the arguments of the last updatePoll call
    polls,          \* the polls table, by id
    poll_options,   \* the poll_options table, by id
    poll_responses, \* the poll_responses table, in order of insertion
    sessions,       \* the database sessions calling submit_poll_response
    leaders,        \* the leaders table: rating and reviewCount by id
    ratings,        \* the ratings table, a set of rows
    rated,          \* the last call of a ratings function
    session,        \* the Supabase auth session of the browser
    localStorage,   \* the browser's local storage, by key
    profiles,       \* the role the profiles table holds for each user
    login,          \* AdminLoginPage: the attempt of handleLogin
    check,          \* the call of checkAdminAuth
    logout,         \* the position of adminLogout
    loggedOut       \* adminLogout has finished and no admin login has succeeded since

notifVars == <<notifications, users, now, ret, call>>
pollVars == <<pollId, results, isLoading, listed, view>>
createVars == <<form, created, route>>
editVars == <<poll, editForm, editLoading, editRoute, updated>>
voteVars == <<polls, poll_options, poll_responses, sessions>>
\* The variables the two readers above leave alone.
ratingVars == <<leaders, ratings, rated>>
adminVars == <<session, localStorage, profiles, login, check, logout, loggedOut>>
backVars == <<ratingVars, adminVars>>
frontVars == <<notifVars, pollVars, createVars, editVars, voteVars>>
pagesVars == <<createVars, editVars, voteVars, backVars>>
vars == <<notifications, users, now, ret, call, pollId, results, isLoading, listed, view,
          form, created, route, poll, editForm, editLoading, editRoute, updated,
          polls, poll_options, poll_responses, sessions,
          leaders, ratings, rated,
          session, localStorage, profiles, login, check, logout, loggedOut>>

(***************************************************************************)
(* Data: the notifications table and the users table.                      *)
(***************************************************************************)

\* Values a target filter may list, and values a user profile may hold.
StateLists == {None, Some(<<>>), Some(<<"Kerala">>), Some(<<"Kerala", "Goa">>)}
ConstituencyLists == {None, Some(<<>>), Some(<<"Wayanad">>)}
GenderLists == {None, Some(<<>>), Some(<<"Female">>)}
AgeBounds == {None} \cup {Some(a) : a \in 0 .. MaxAge}

UserStates == {None, Some("Kerala"), Some("Punjab")}
UserConstituencies == {None, Some("Wayanad"), Some("Panaji")}
UserGenders == {None, Some("Female"), Some("Male")}

\* SiteNotification.target_filters: null, or an object whose five
\* properties are each optional.
TargetFilters ==
    {None} \cup {Some(f) : f \in [states : StateLists, constituencies : ConstituencyLists,
                                  gender : GenderLists, age_min : AgeBounds,
                                  age_max : AgeBounds]}

\* The clock reading of a run, in days.
Today == 2000

\* The fewest whole days after which userAge reaches a years.
DaysAtAge(a) == (a * 1461 + 3) \div 4

\* Birth dates: on the day, and the day before, each birthday up to MaxAge + 1.
BirthDates ==
    {None} \cup {Some(Today - DaysAtAge(a)) : a \in 0 .. (MaxAge + 1)}
           \cup {Some(Today - (DaysAtAge(a) - 1)) : a \in 1 .. (MaxAge + 1)}

\* One row of the notifications table (the columns the queries read).
SiteNotification ==
    [id : {"n1"}, isActive : BOOLEAN, startTime : {None},
     endTime : {None, Some(Today - 1)}, target_filters : TargetFilters]

\* One row of the users table (the columns the audience filter selects).
UserRow ==
    [state : UserStates, mpConstituency : UserConstituencies,
     gender : UserGenders, dateOfBirth : BirthDates]

UserIds == {"u1"}

\* Array.prototype.includes
Includes(list, x) == \E i \in DOMAIN list : list[i] = x

(***************************************************************************)
(* getActiveNotificationsForUser                                           *)
(***************************************************************************)

\* .eq('isActive', true).or(startTime null or <= now).or(endTime null or >= now)
ActiveQuery(n, t) ==
    /\ n.isActive
    /\ (n.startTime = None \/ Get(n.startTime) <= t)
    /\ (n.endTime = None \/ Get(n.endTime) >= t)

\* Math.floor((Date.now() - dateOfBirth) / (365.25 days)), or null.
UserAge(userData, t) ==
    IF IsSome(userData.dateOfBirth)
    THEN Some((4 * (t - Get(userData.dateOfBirth))) \div 1461)
    ELSE None

\* JavaScript truthiness of an optional list's length and of an optional number.
NonEmptyList(l) == IsSome(l) /\ Len(Get(l)) > 0
TruthyNumber(x) == IsSome(x) /\ Get(x) # 0

\* StateRejects failing open: a viewer without a state passes the states list.
StateRejects_FailOpen(filters, userData) ==
    /\ NonEmptyList(filters.states)
    /\ userData.state # None
    /\ ~Includes(Get(filters.states), Get(userData.state))

\* "Check state filter": the early return of the states sub-filter.
StateRejects(filters, userData) ==
    /\ NonEmptyList(filters.states)
    /\ (\/ userData.state = None
        \/ ~Includes(Get(filters.states), Get(userData.state)))

\* "Check constituency filter".
ConstituencyRejects(filters, userData) ==
    /\ NonEmptyList(filters.constituencies)
    /\ (\/ userData.mpConstituency = None
        \/ ~Includes(Get(filters.constituencies), Get(userData.mpConstituency)))

\* "Check gender filter".
GenderRejects(filters, userData) ==
    /\ NonEmptyList(filters.gender)
    /\ (\/ userData.gender = None
        \/ ~Includes(Get(filters.gender), Get(userData.gender)))

\* "Check age filters": skipped as a whole when userAge is null.
AgeRejects(filters, userAge) ==
    /\ userAge # None
    /\ \/ (TruthyNumber(filters.age_min) /\ Get(userAge) < Get(filters.age_min))
       \/ (TruthyNumber(filters.age_max) /\ Get(userAge) > Get(filters.age_max))

\* The callback of notifications.filter for a logged-in user.
AudienceMatch(n, userData, userAge) ==
    IF n.target_filters = None THEN TRUE
    ELSE LET filters == Get(n.target_filters) IN
         IF StateRejects(filters, userData) THEN FALSE
         ELSE IF ConstituencyRejects(filters, userData) THEN FALSE
         ELSE IF GenderRejects(filters, userData) THEN FALSE
         ELSE IF AgeRejects(filters, userAge) THEN FALSE
         ELSE TRUE

\* WithoutTargetFilters keeping every notification.
WithoutTargetFilters_KeepAll(n) == TRUE

\* WithoutTargetFilters with the negation lost.
WithoutTargetFilters_Inverted(n) == n.target_filters # None

\* The callback used when nobody is logged in or the profile lookup failed.
WithoutTargetFilters(n) == n.target_filters = None

\* The value the function returns, given the outcome of its two queries.
ForUserResult(userId, queryError, userError) ==
    LET active == SelectSeq(notifications, LAMBDA n : ActiveQuery(n, now)) IN
    IF queryError THEN <<>>
    ELSE IF userId = None THEN SelectSeq(active, WithoutTargetFilters)
    ELSE IF userError THEN SelectSeq(active, WithoutTargetFilters)
    ELSE LET userData == users[Get(userId)]
             userAge == UserAge(userData, now)
         IN  SelectSeq(active, LAMBDA n : AudienceMatch(n, userData, userAge))

\* No call of getActiveNotifications, addNotification or updateNotification
\* since the tables, the clock or the viewer's list last changed.
NoArgs == [id |-> "", data |-> None]
NoOutcome == [fn |-> "none", args |-> NoArgs, value |-> <<>>, thrown |-> None]

\* One call of getActiveNotificationsForUser(userId).
GetActiveNotificationsForUser(userId, queryError, userError) ==
    /\ (userId = None \/ queryError) => ~userError
    /\ call' = NoOutcome
    /\ ret' = [called |-> TRUE, userId |-> userId, queryError |-> queryError,
               userError |-> userError,
               value |-> ForUserResult(userId, queryError, userError)]
    /\ UNCHANGED <<notifications, users, now>>
    /\ UNCHANGED pollVars
    /\ UNCHANGED pagesVars

NoCall == [called |-> FALSE, userId |-> None, queryError |-> FALSE,
           userError |-> FALSE, value |-> <<>>]

\* A string, as the list of its characters.
Str(cs) == [chars |-> cs]
Length(s) == Len(s.chars)

\* The form of the Create Poll page as useForm starts it.
defaultValues ==
    [title |-> Str(<<>>),
     description |-> Str(<<>>),
     is_active |-> TRUE,
     active_until |-> None,
     target_filters |-> [states |-> <<>>, constituencies |-> <<>>, gender |-> <<>>,
                         age_min |-> None, age_max |-> None],
     questions |-> <<[question_text |-> Str(<<>>),
                      question_type |-> "multiple_choice",
                      options |-> <<Str(<<>>), Str(<<>>)>>]>>]

\* The Create Poll page, not opened.
CreateIdle ==
    /\ form = defaultValues
    /\ created = None
    /\ route = "/"

\* The form of the Edit Poll page as useForm starts it.
editDefaultValues ==
    [title |-> Str(<<>>), description |-> Str(<<>>), is_active |-> TRUE,
     active_until |-> None]

\* The Edit Poll page, not opened.
EditIdle ==
    /\ poll = None
    /\ editForm = editDefaultValues
    /\ editLoading = TRUE
    /\ editRoute = "/"
    /\ updated = None

\* The poll tables, empty, and no session connected.
VotesIdle ==
    /\ polls = <<>>
    /\ poll_options = <<>>
    /\ poll_responses = <<>>
    /\ sessions = <<>>

\* The ratings of leaders, with no call made yet.
NoRated == [fn |-> "none", p_leader_id |-> "", p_user_id |-> "", p_rating |-> 0,
            raised |-> FALSE, branch |-> "none"]
RatingIdle ==
    /\ leaders = <<>>
    /\ ratings = {}
    /\ rated = NoRated

\* The admin area, with nobody signed in and nothing running.
NoLogin == [pc |-> "idle", user |-> None, role |-> None, outcome |-> "none", wrote |-> FALSE]
NoCheck == [pc |-> "idle", session |-> None, admin_auth |-> None, role |-> None,
            value |-> "none", afterLogout |-> FALSE]
AdminIdle ==
    /\ session = None
    /\ localStorage = <<>>
    /\ profiles = <<>>
    /\ login = NoLogin
    /\ check = NoCheck
    /\ logout = "idle"
    /\ loggedOut = FALSE

BackIdle == RatingIdle /\ AdminIdle

\* The pages that are not part of the specification at hand.
PagesIdle == CreateIdle /\ EditIdle /\ VotesIdle /\ BackIdle

\* The poll results component, not mounted.
NoView == [kind |-> "none", popular |-> None, gender |-> <<>>, questions |-> <<>>]
PollIdle ==
    /\ pollId = None
    /\ results = None
    /\ isLoading = TRUE
    /\ listed = None
    /\ view = NoView

InitAudience ==
    /\ notifications \in {<<n>> : n \in SiteNotification}
    /\ users \in [UserIds -> UserRow]
    /\ now = Today
    /\ ret = NoCall
    /\ call = NoOutcome
    /\ PollIdle
    /\ PagesIdle

NextAudience ==
    \E userId \in {None} \cup {Some(u) : u \in UserIds},
       queryError \in BOOLEAN, userError \in BOOLEAN :
        GetActiveNotificationsForUser(userId, queryError, userError)

SpecAudience == InitAudience /\ [][NextAudience]_vars


(***************************************************************************)
(* PollResults: the component that shows the results of one poll.          *)
(***************************************************************************)

\* The names of a question's options, in the order the poll lists them.
OptionNames == <<"A", "B", "C", "D", "E">>

\* question.answers: up to MaxOptions entries {name, value}.
AnswerLists ==
    UNION {{[i \in 1 .. k |-> [name |-> OptionNames[i], value |-> v[i]]] :
               v \in [1 .. k -> 0 .. MaxVotes]} : k \in 0 .. MaxOptions}

\* results.questions: no question, one, or two.
QuestionLists ==
    {<<>>} \cup {<<[id |-> "q1", answers |-> a]>> : a \in AnswerLists}
           \cup {<<[id |-> "q1", answers |-> a], [id |-> "q2", answers |-> b]>> :
                    a \in AnswerLists, b \in AnswerLists}

\* results.genderDistribution: entries {name, value}.
GenderDistributions == {<<>>, <<[name |-> "Female", value |-> 1]>>}

\* PollResult, as getPollResults hands it over.
PollResult ==
    [totalResponses : 0 .. MaxVotes, genderDistribution : GenderDistributions,
     questions : QuestionLists]

\* A number as the page prints it: NaN, or a count of tenths.
NaN == [nan |-> TRUE, tenths |-> 0]
Tenths(t) == [nan |-> FALSE, tenths |-> t]

\* ((value / total) * 100).toFixed(1), for value >= 0 and total >= value:
\* 0 / 0 is NaN, otherwise the percentage rounded to one decimal.
Percent(value, total) ==
    IF total = 0 THEN NaN
    ELSE Tenths((2000 * value + total) \div (2 * total))

\* answers.reduce((sum, answer) => sum + answer.value, 0)
RECURSIVE TotalVotes(_)
TotalVotes(answers) ==
    IF answers = <<>> THEN 0
    ELSE Head(answers).value + TotalVotes(Tail(answers))

\* The reducer (a, b) => a.value > b.value ? a : b
KeepLarger(a, b) == IF a.value > b.value THEN a ELSE b

\* answers.reduce((a, b) => a.value > b.value ? a : b) on a non-empty array:
\* the first element is the initial accumulator.
RECURSIVE ReduceFrom(_, _)
ReduceFrom(acc, rest) ==
    IF rest = <<>> THEN acc
    ELSE ReduceFrom(KeepLarger(acc, Head(rest)), Tail(rest))
Winner(answers) == ReduceFrom(Head(answers), Tail(answers))

\* reduce without an initial value throws a TypeError on an empty array.
ReduceThrows(answers) == answers = <<>>

\* answers.sort((a, b) => b.value - a.value): descending by value, stable.
RECURSIVE InsertDesc(_, _)
InsertDesc(sorted, x) ==
    IF sorted = <<>> THEN <<x>>
    ELSE IF Head(sorted).value >= x.value
         THEN <<Head(sorted)>> \o InsertDesc(Tail(sorted), x)
         ELSE <<x>> \o sorted
RECURSIVE SortDesc(_)
SortDesc(answers) ==
    IF answers = <<>> THEN <<>>
    ELSE InsertDesc(SortDesc(SubSeq(answers, 1, Len(answers) - 1)),
                    answers[Len(answers)])

\* The card of one question: total, winning option, and the options list.
QuestionCard(question) ==
    LET totalVotes == TotalVotes(question.answers)
        winner == Winner(question.answers)
        sorted == SortDesc(question.answers)
    IN  [id |-> question.id,
         totalVotes |-> totalVotes,
         winner |-> winner,
         winnerPercent |-> Percent(winner.value, totalVotes),
         options |-> [i \in DOMAIN sorted |->
                         [name |-> sorted[i].name, value |-> sorted[i].value,
                          percent |-> Percent(sorted[i].value, totalVotes)]]]

\* "Most Popular Answer": the reduce over the first question, when it has answers.
MostPopular(r) ==
    IF Len(r.questions) > 0 /\ Len(r.questions[1].answers) > 0
    THEN Some(Winner(r.questions[1].answers))
    ELSE None

\* The gender rows: value and value / totalResponses.
GenderRows(r) ==
    [i \in DOMAIN r.genderDistribution |->
        [name |-> r.genderDistribution[i].name,
         value |-> r.genderDistribution[i].value,
         percent |-> Percent(r.genderDistribution[i].value, r.totalResponses)]]

\* results.questions.map stops at the first question whose reduce throws.
ThrowsAt(r) ==
    {i \in DOMAIN r.questions : ReduceThrows(r.questions[i].answers)}
FirstThrow(r) == CHOOSE i \in ThrowsAt(r) : \A j \in ThrowsAt(r) : i <= j

\* The questions after a render: sort() reorders the answers array of every
\* question whose card was built, in place.
SortedUpTo(r, last) ==
    [r EXCEPT !.questions =
        [i \in DOMAIN r.questions |->
            IF i <= last
            THEN [r.questions[i] EXCEPT !.answers = SortDesc(r.questions[i].answers)]
            ELSE r.questions[i]]]

\* HasResponses with the comparison loosened to >=.
HasResponses_OrNone(r) == r.totalResponses >= 0

\* The branch that shows results: totalResponses > 0.
HasResponses(r) == r.totalResponses > 0

LoadingView == [kind |-> "loading", popular |-> None, gender |-> <<>>, questions |-> <<>>]
ErrorView == [kind |-> "error", popular |-> None, gender |-> <<>>, questions |-> <<>>]
EmptyView == [kind |-> "empty", popular |-> None, gender |-> <<>>, questions |-> <<>>]
ThrewView == [kind |-> "threw", popular |-> None, gender |-> <<>>, questions |-> <<>>]

\* One render of the component.
Render ==
    /\ IF isLoading THEN view' = LoadingView /\ UNCHANGED results
       ELSE IF results = None THEN view' = ErrorView /\ UNCHANGED results
       ELSE LET r == Get(results) IN
            IF ~HasResponses(r) THEN view' = EmptyView /\ UNCHANGED results
            ELSE IF ThrowsAt(r) # {}
                 THEN /\ view' = ThrewView
                      /\ results' = Some(SortedUpTo(r, FirstThrow(r) - 1))
                 ELSE /\ view' = [kind |-> "results",
                                  popular |-> MostPopular(r),
                                  gender |-> GenderRows(r),
                                  questions |-> [i \in DOMAIN r.questions |->
                                                    QuestionCard(r.questions[i])]]
                      /\ results' = Some(SortedUpTo(r, Len(r.questions)))
    /\ UNCHANGED <<pollId, isLoading, listed>>
    /\ UNCHANGED notifVars
    /\ UNCHANGED pagesVars

\* What getPollResults(pollId) may answer: a result, or null when it failed.
PollData == {None} \cup {Some(r) : r \in PollResult}

\* The effect of the first render: the answer of getPollResults(pollId)
\* becomes the results state and loading ends.
FetchResults ==
    /\ pollId # None
    /\ isLoading
    /\ view = LoadingView
    /\ \E data \in PollData :
        /\ results' = data
        /\ listed' = data
    /\ isLoading' = FALSE
    /\ UNCHANGED <<pollId, view>>
    /\ UNCHANGED notifVars
    /\ UNCHANGED pagesVars

InitPollResults ==
    /\ pollId \in {None, Some("p1")}
    /\ results = None
    /\ isLoading = TRUE
    /\ listed = None
    /\ view = NoView
    /\ notifications = <<>>
    /\ users = [u \in UserIds |-> [state |-> None, mpConstituency |-> None,
                                   gender |-> None, dateOfBirth |-> None]]
    /\ now = Today
    /\ ret = NoCall
    /\ call = NoOutcome
    /\ PagesIdle

NextPollResults ==
    \/ Render
    \/ FetchResults

SpecPollResults == InitPollResults /\ [][NextPollResults]_vars

(***************************************************************************)
(* The Create Poll page (admin/tools/polls/create): the form, its          *)
(* validation by pollSchema and the call of createPoll.                    *)
(***************************************************************************)
\* What the admin types into a text field, and into an age field.
Texts == {Str(<<>>), Str(<<" ">>), Str(<<"x">>)}
Titles == {Str(<<>>), Str(<<"x">>)}
AgeInputs == {None, Some(17), Some(18), Some(19), Some(101)}

\* The most options the form of one question holds in the model.
MaxFormOptions == 3

\* String.prototype.trim.
RECURSIVE TrimStart(_)
TrimStart(cs) ==
    IF cs # <<>> /\ Head(cs) = " " THEN TrimStart(Tail(cs)) ELSE cs
RECURSIVE TrimEnd(_)
TrimEnd(cs) ==
    IF cs # <<>> /\ cs[Len(cs)] = " " THEN TrimEnd(SubSeq(cs, 1, Len(cs) - 1)) ELSE cs
Trim(s) == Str(TrimEnd(TrimStart(s.chars)))

\* z.number().min(18).max(100).optional()
AgeField(x) == x = None \/ (Get(x) >= 18 /\ Get(x) <= 100)

\* questionSchema
questionSchema(q) ==
    /\ Length(q.question_text) >= 1
    /\ q.question_type \in {"yes_no", "multiple_choice"}
    /\ \A i \in 1..Len(q.options) : Length(q.options[i]) >= 1
    /\ Len(q.options) >= 2

\* pollSchema: what zodResolver accepts.
pollSchema(data) ==
    /\ Length(data.title) >= 1
    /\ AgeField(data.target_filters.age_min)
    /\ AgeField(data.target_filters.age_max)
    /\ Len(data.questions) >= 1
    /\ \A i \in 1..Len(data.questions) : questionSchema(data.questions[i])

\* onSubmit: whether target_filters is passed on (a truthiness chain).
FiltersGiven(f) ==
    \/ Len(f.states) # 0
    \/ Len(f.constituencies) # 0
    \/ Len(f.gender) # 0
    \/ TruthyNumber(f.age_min)
    \/ TruthyNumber(f.age_max)

\* onSubmit: the CreatePollData built from the form.
PollDataOf(data) ==
    [title |-> data.title,
     description |-> IF Length(data.description) = 0 THEN None ELSE Some(data.description),
     is_active |-> data.is_active,
     active_until |-> data.active_until,
     target_filters |-> IF FiltersGiven(data.target_filters)
                        THEN Some(data.target_filters) ELSE None,
     questions |-> [i \in 1..Len(data.questions) |->
        [question_text |-> data.questions[i].question_text,
         question_type |-> data.questions[i].question_type,
         options |-> SelectSeq(data.questions[i].options,
                               LAMBDA option : Trim(option) # Str(<<>>))]]]

OnForm == route = "/admin/tools/polls/create"

\* The admin opens the page.
OpenCreatePoll ==
    /\ route = "/"
    /\ route' = "/admin/tools/polls/create"
    /\ UNCHANGED <<form, created>>
    /\ UNCHANGED <<backVars, notifVars, pollVars, editVars, voteVars>>

\* The title field.
SetTitle(text) ==
    /\ OnForm
    /\ form' = [form EXCEPT !.title = text]
    /\ UNCHANGED <<created, route>>
    /\ UNCHANGED <<backVars, notifVars, pollVars, editVars, voteVars>>

\* The question text field of question q.
SetQuestionText(q, text) ==
    /\ OnForm
    /\ form' = [form EXCEPT !.questions[q].question_text = text]
    /\ UNCHANGED <<created, route>>
    /\ UNCHANGED <<backVars, notifVars, pollVars, editVars, voteVars>>

\* The text field of option o of question q.
SetOptionText(q, o, text) ==
    /\ OnForm
    /\ form' = [form EXCEPT !.questions[q].options[o] = text]
    /\ UNCHANGED <<created, route>>
    /\ UNCHANGED <<backVars, notifVars, pollVars, editVars, voteVars>>

addOption(questionIndex) ==
    /\ OnForm
    /\ Len(form.questions[questionIndex].options) < MaxFormOptions
    /\ form' = [form EXCEPT !.questions[questionIndex].options = Append(@, Str(<<>>))]
    /\ UNCHANGED <<created, route>>
    /\ UNCHANGED <<backVars, notifVars, pollVars, editVars, voteVars>>

removeOption(questionIndex, optionIndex) ==
    /\ OnForm
    /\ LET currentOptions == form.questions[questionIndex].options IN
        IF Len(currentOptions) > 2
        THEN form' = [form EXCEPT !.questions[questionIndex].options =
                        SubSeq(currentOptions, 1, optionIndex - 1)
                            \o SubSeq(currentOptions, optionIndex + 1, Len(currentOptions))]
        ELSE UNCHANGED form
    /\ UNCHANGED <<created, route>>
    /\ UNCHANGED <<backVars, notifVars, pollVars, editVars, voteVars>>

\* The Minimum Age and Maximum Age fields.
SetAgeMin(value) ==
    /\ OnForm
    /\ form' = [form EXCEPT !.target_filters.age_min = value]
    /\ UNCHANGED <<created, route>>
    /\ UNCHANGED <<backVars, notifVars, pollVars, editVars, voteVars>>

SetAgeMax(value) ==
    /\ OnForm
    /\ form' = [form EXCEPT !.target_filters.age_max = value]
    /\ UNCHANGED <<created, route>>
    /\ UNCHANGED <<backVars, notifVars, pollVars, editVars, voteVars>>

\* form.handleSubmit(onSubmit): the resolver validates, then onSubmit calls
\* createPoll and, unless it throws, leaves for the list of polls.
SubmitCreatePoll(createThrows) ==
    /\ OnForm
    /\ IF ~pollSchema(form) THEN UNCHANGED <<created, route>>
       ELSE /\ created' = Some(PollDataOf(form))
            /\ route' = IF createThrows THEN route ELSE "/admin/tools/polls"
    /\ UNCHANGED form
    /\ UNCHANGED <<backVars, notifVars, pollVars, editVars, voteVars>>

NotifIdle ==
    /\ notifications = <<>>
    /\ users = [u \in UserIds |-> [state |-> None, mpConstituency |-> None,
                                   gender |-> None, dateOfBirth |-> None]]
    /\ now = Today
    /\ ret = NoCall
    /\ call = NoOutcome

InitCreatePoll ==
    /\ CreateIdle
    /\ EditIdle
    /\ VotesIdle
    /\ NotifIdle
    /\ PollIdle
    /\ BackIdle

NextCreatePoll ==
    \/ OpenCreatePoll
    \/ \E text \in Titles : SetTitle(text)
    \/ \E text \in Titles : SetQuestionText(1, text)
    \/ \E o \in 1..MaxFormOptions, text \in Texts :
        o <= Len(form.questions[1].options) /\ SetOptionText(1, o, text)
    \/ addOption(1)
    \/ \E o \in 1..MaxFormOptions :
        o <= Len(form.questions[1].options) /\ removeOption(1, o)
    \/ \E value \in AgeInputs : SetAgeMin(value)
    \/ \E value \in AgeInputs : SetAgeMax(value)
    \/ \E createThrows \in BOOLEAN : SubmitCreatePoll(createThrows)

SpecCreatePoll == InitCreatePoll /\ [][NextCreatePoll]_vars

\* The states and their districts (@/data/locations) the form offers: one
\* district name is shared by two states, and one state has no district.
indianStates == <<"Bihar", "Maharashtra", "Chandigarh">>
districtsByState(state) ==
    IF state = "Bihar" THEN <<"Patna", "Aurangabad">>
    ELSE IF state = "Maharashtra" THEN <<"Pune", "Aurangabad">>
    ELSE <<>>

\* The checkbox of a state keeping the constituencies of the state.
WithoutDistrictsOf_Kept(currentConstituencies, state) == currentConstituencies

\* currentConstituencies.filter(c => !stateConstituencies.includes(c))
WithoutDistrictsOf(currentConstituencies, state) ==
    SelectSeq(currentConstituencies, LAMBDA c : ~Includes(districtsByState(state), c))

\* The checkbox of a state: it is checked exactly when the state is selected.
CheckState(state, checked) ==
    /\ OnForm
    /\ checked = ~Includes(form.target_filters.states, state)
    /\ LET currentStates == form.target_filters.states IN
        IF checked
        THEN form' = [form EXCEPT !.target_filters.states = Append(currentStates, state)]
        ELSE form' = [form EXCEPT
                !.target_filters.states = SelectSeq(currentStates, LAMBDA x : x # state),
                !.target_filters.constituencies = WithoutDistrictsOf(@, state)]
    /\ UNCHANGED <<created, route>>
    /\ UNCHANGED <<backVars, notifVars, pollVars, editVars, voteVars>>

\* The section of a state is rendered when the state is selected and has
\* districts.
SectionShown(state) ==
    /\ Len(form.target_filters.states) > 0
    /\ Includes(form.target_filters.states, state)
    /\ Len(districtsByState(state)) # 0

\* The checkbox of a constituency in the section of a state.
CheckConstituency(state, constituency, checked) ==
    /\ OnForm
    /\ SectionShown(state)
    /\ Includes(districtsByState(state), constituency)
    /\ checked = ~Includes(form.target_filters.constituencies, constituency)
    /\ LET currentConstituencies == form.target_filters.constituencies IN
        form' = [form EXCEPT !.target_filters.constituencies =
                    IF checked THEN Append(currentConstituencies, constituency)
                    ELSE SelectSeq(currentConstituencies, LAMBDA c : c # constituency)]
    /\ UNCHANGED <<created, route>>
    /\ UNCHANGED <<backVars, notifVars, pollVars, editVars, voteVars>>

\* 'Select All' in the section of a state.
SelectAllConstituencies(state) ==
    /\ OnForm
    /\ SectionShown(state)
    /\ form' = [form EXCEPT !.target_filters.constituencies =
                    WithoutDistrictsOf(@, state) \o districtsByState(state)]
    /\ UNCHANGED <<created, route>>
    /\ UNCHANGED <<backVars, notifVars, pollVars, editVars, voteVars>>

\* 'Clear' in the section of a state.
ClearConstituencies(state) ==
    /\ OnForm
    /\ SectionShown(state)
    /\ form' = [form EXCEPT !.target_filters.constituencies = WithoutDistrictsOf(@, state)]
    /\ UNCHANGED <<created, route>>
    /\ UNCHANGED <<backVars, notifVars, pollVars, editVars, voteVars>>

\* 'Select All States'.
SelectAllStates ==
    /\ OnForm
    /\ form' = [form EXCEPT !.target_filters.states = indianStates]
    /\ UNCHANGED <<created, route>>
    /\ UNCHANGED <<backVars, notifVars, pollVars, editVars, voteVars>>

\* 'Clear All Filters'.
ClearAllFilters ==
    /\ OnForm
    /\ form' = [form EXCEPT !.target_filters =
                    [states |-> <<>>, constituencies |-> <<>>, gender |-> <<>>,
                     age_min |-> None, age_max |-> None]]
    /\ UNCHANGED <<created, route>>
    /\ UNCHANGED <<backVars, notifVars, pollVars, editVars, voteVars>>

States == {indianStates[i] : i \in DOMAIN indianStates}
Districts == UNION {{districtsByState(st)[i] : i \in DOMAIN districtsByState(st)} : st \in States}

\* The target audience part of the form.
NextTargetAudience ==
    \/ OpenCreatePoll
    \/ \E state \in States, checked \in BOOLEAN : CheckState(state, checked)
    \/ \E state \in States, constituency \in Districts, checked \in BOOLEAN :
        CheckConstituency(state, constituency, checked)
    \/ \E state \in States : SelectAllConstituencies(state)
    \/ \E state \in States : ClearConstituencies(state)
    \/ SelectAllStates
    \/ ClearAllFilters
    \/ \E value \in {None, Some(18)} : SetAgeMin(value)

SpecTargetAudience == InitCreatePoll /\ [][NextTargetAudience]_vars

\* The Question Type select of question questionIndex: the field takes the
\* value and onQuestionTypeChange resets the options.
onQuestionTypeChange(questionIndex, type) ==
    /\ OnForm
    /\ form' = [form EXCEPT
            !.questions[questionIndex].question_type = type,
            !.questions[questionIndex].options =
                IF type = "yes_no"
                THEN <<Str(<<"Y", "e", "s">>), Str(<<"N", "o">>)>>
                ELSE <<Str(<<>>), Str(<<>>)>>]
    /\ UNCHANGED <<created, route>>
    /\ UNCHANGED <<backVars, notifVars, pollVars, editVars, voteVars>>

\* The option controls are offered for a multiple choice question only.
MultipleChoice(q) == form.questions[q].question_type = "multiple_choice"

\* The questions part of the form, and the submission.
NextPollQuestions ==
    \/ OpenCreatePoll
    \/ \E text \in Titles : SetTitle(text)
    \/ \E text \in Titles : SetQuestionText(1, text)
    \/ \E type \in {"yes_no", "multiple_choice"} : onQuestionTypeChange(1, type)
    \/ \E o \in 1..MaxFormOptions, text \in Texts :
        MultipleChoice(1) /\ o <= Len(form.questions[1].options) /\ SetOptionText(1, o, text)
    \/ MultipleChoice(1) /\ addOption(1)
    \/ \E o \in 1..MaxFormOptions :
        /\ MultipleChoice(1) /\ Len(form.questions[1].options) > 2
        /\ o <= Len(form.questions[1].options)
        /\ removeOption(1, o)
    \/ \E createThrows \in BOOLEAN : SubmitCreatePoll(createThrows)

SpecPollQuestions == InitCreatePoll /\ [][NextPollQuestions]_vars

(***************************************************************************)
(* The Edit Poll page (EditPollPage of admin/tools/polls/[id]): the poll   *)
(* it fetches, its form and the call of updatePoll.                        *)
(***************************************************************************)
\* A date is a day number; its ISO string carries the same instant.
toISOString(date) == [iso |-> date]
NewDate(string) == string.iso

\* The questions a stored poll has, with their options.
StoredQuestions ==
    {<<[id |-> "q1", question_text |-> Str(<<"x">>),
        options |-> <<[id |-> "o1", option_text |-> Str(<<"x">>), vote_count |-> v],
                      [id |-> "o2", option_text |-> Str(<<"x">>), vote_count |-> 0]>>]>>
        : v \in 0..1}

\* The polls getPollById may return.
StoredPolls ==
    [id : {"p1"},
     title : {Str(<<"y">>)},
     description : {None, Some(Str(<<"x">>))},
     is_active : BOOLEAN,
     active_until : {None, Some(toISOString(Today + 1))},
     questions : StoredQuestions]

\* editPollSchema: what zodResolver accepts.
editPollSchema(data) == Length(data.title) >= 1

\* onSubmit: the updates handed to updatePoll, with the questions added.
PollUpdates_WithQuestions(data) ==
    [title |-> data.title,
     description |-> data.description,
     is_active |-> data.is_active,
     active_until |-> IF data.active_until = None THEN None
                      ELSE Some(toISOString(Get(data.active_until))),
     questions |-> <<>>]

\* onSubmit: the updates handed to updatePoll.
PollUpdates(data) ==
    [title |-> data.title,
     description |-> data.description,
     is_active |-> data.is_active,
     active_until |-> IF data.active_until = None THEN None
                      ELSE Some(toISOString(Get(data.active_until)))]

OnEditForm == editRoute = "/admin/tools/polls/[id]" /\ ~editLoading

\* The admin opens the page: the mount effect fetchPoll runs.  idValid is
\* whether params.id is a string; fetched is what getPollById gives (None for
\* null); fetchThrows is whether it throws.
fetchPoll(idValid, fetched, fetchThrows) ==
    /\ editRoute = "/" /\ editLoading
    /\ IF ~idValid
       THEN /\ editRoute' = "/admin/tools/polls"
            /\ UNCHANGED <<poll, editForm, editLoading>>
       ELSE IF fetchThrows
       THEN /\ editRoute' = "/admin/tools/polls"
            /\ editLoading' = FALSE
            /\ UNCHANGED <<poll, editForm>>
       ELSE IF fetched = None
       THEN /\ editRoute' = "/admin/tools/polls"
            /\ editLoading' = FALSE
            /\ UNCHANGED <<poll, editForm>>
       ELSE /\ poll' = fetched
            /\ editForm' =
                [title |-> Get(fetched).title,
                 description |-> IF Get(fetched).description = None THEN Str(<<>>)
                                 ELSE Get(Get(fetched).description),
                 is_active |-> Get(fetched).is_active,
                 active_until |-> IF Get(fetched).active_until = None THEN None
                                  ELSE Some(NewDate(Get(Get(fetched).active_until)))]
            /\ editLoading' = FALSE
            /\ editRoute' = "/admin/tools/polls/[id]"
    /\ UNCHANGED updated
    /\ UNCHANGED <<backVars, notifVars, pollVars, createVars, voteVars>>

\* The title field.
EditTitle(text) ==
    /\ OnEditForm
    /\ editForm' = [editForm EXCEPT !.title = text]
    /\ UNCHANGED <<poll, editLoading, editRoute, updated>>
    /\ UNCHANGED <<backVars, notifVars, pollVars, createVars, voteVars>>

\* The Active switch.
EditIsActive(checked) ==
    /\ OnEditForm
    /\ editForm' = [editForm EXCEPT !.is_active = checked]
    /\ UNCHANGED <<poll, editLoading, editRoute, updated>>
    /\ UNCHANGED <<backVars, notifVars, pollVars, createVars, voteVars>>

\* The Active Until calendar, which offers no date before today.
EditActiveUntil(date) ==
    /\ OnEditForm
    /\ date # None => Get(date) >= now
    /\ editForm' = [editForm EXCEPT !.active_until = date]
    /\ UNCHANGED <<poll, editLoading, editRoute, updated>>
    /\ UNCHANGED <<backVars, notifVars, pollVars, createVars, voteVars>>

\* form.handleSubmit(onSubmit): the resolver validates, then onSubmit calls
\* updatePoll and, unless it throws, leaves for the list of polls.
SubmitEditPoll(updateThrows) ==
    /\ OnEditForm
    /\ IF ~editPollSchema(editForm) \/ poll = None
       THEN UNCHANGED <<updated, editRoute>>
       ELSE /\ updated' = Some([id |-> Get(poll).id, updates |-> PollUpdates(editForm)])
            /\ editRoute' = IF updateThrows THEN editRoute ELSE "/admin/tools/polls"
    /\ UNCHANGED <<poll, editForm, editLoading>>
    /\ UNCHANGED <<backVars, notifVars, pollVars, createVars, voteVars>>

InitEditPoll ==
    /\ EditIdle
    /\ CreateIdle
    /\ VotesIdle
    /\ NotifIdle
    /\ PollIdle
    /\ BackIdle

NextEditPoll ==
    \/ \E idValid \in BOOLEAN, fetched \in {None} \cup {Some(p) : p \in StoredPolls},
          fetchThrows \in BOOLEAN : fetchPoll(idValid, fetched, fetchThrows)
    \/ \E text \in Titles : EditTitle(text)
    \/ \E checked \in BOOLEAN : EditIsActive(checked)
    \/ \E date \in {None, Some(Today), Some(Today + 1)} : EditActiveUntil(date)
    \/ \E updateThrows \in BOOLEAN : SubmitEditPoll(updateThrows)

SpecEditPoll == InitEditPoll /\ [][NextEditPoll]_vars

(***************************************************************************)
(* Voting (supabase_schema.sql): the tables polls, poll_questions,         *)
(* poll_options and poll_responses, and submit_poll_response called from   *)
(* concurrent database sessions.  A call runs in one transaction: what it  *)
(* wrote is seen by the others when it commits, and is gone if it aborts.  *)
(***************************************************************************)
PollIds == {"p1", "p2"}
Voters == {"u1", "u2"}
OptionIds == {"o1", "o2"}
Sessions == {"s1", "s2"}

\* The most entries p_answers holds in the model.
MaxAnswers == 2

\* The poll_questions table: q1 is a question of p1, q2 of p2.
poll_questions ==
    [q \in {"q1", "q2"} |-> [poll_id |-> IF q = "q1" THEN "p1" ELSE "p2"]]

\* The rows of polls, and the poll_options rows before any vote: o1 is an
\* option of q1, o2 of q2.
PollRows ==
    {[is_active |-> TRUE, active_until |-> None],
     [is_active |-> FALSE, active_until |-> None],
     [is_active |-> TRUE, active_until |-> Some(Today - 1)]}
NewOptions ==
    [o \in OptionIds |->
        [question_id |-> IF o = "o1" THEN "q1" ELSE "q2", vote_count |-> 0]]

\* p_answers: a JSON array of {optionId}.
AnswerArrays == UNION {[1..n -> [optionId : OptionIds]] : n \in 0..MaxAnswers}

\* UNIQUE(poll_id, user_id) on poll_responses.
UniqueViolation(responses, p_poll_id, p_user_id) ==
    \E i \in 1..Len(responses) :
        responses[i].poll_id = p_poll_id /\ responses[i].user_id = p_user_id

\* The FOR loop of submit_poll_response: one UPDATE per entry of p_answers.
RECURSIVE UpdateVoteCounts(_, _)
UpdateVoteCounts(options, p_answers) ==
    IF p_answers = <<>> THEN options
    ELSE LET option_id == Head(p_answers).optionId IN
         UpdateVoteCounts(
            IF option_id \in DOMAIN options
            THEN [options EXCEPT ![option_id].vote_count = @ + 1]
            ELSE options,
            Tail(p_answers))

\* submit_poll_response counting only the first response stored.
submit_poll_response_FirstCounts(db, p_poll_id, p_user_id, p_answers) ==
    [responses |-> Append(db.responses,
        [poll_id |-> p_poll_id, user_id |-> p_user_id, answers |-> p_answers]),
     options |-> IF db.responses = <<>>
                 THEN UpdateVoteCounts(db.options, p_answers) ELSE db.options]

\* submit_poll_response counting each option once per response.
submit_poll_response_OncePerOption(db, p_poll_id, p_user_id, p_answers) ==
    [responses |-> Append(db.responses,
        [poll_id |-> p_poll_id, user_id |-> p_user_id, answers |-> p_answers]),
     options |-> [o \in DOMAIN db.options |->
        IF \E i \in 1..Len(p_answers) : p_answers[i].optionId = o
        THEN [db.options[o] EXCEPT !.vote_count = @ + 1] ELSE db.options[o]]]

\* submit_poll_response on tables db where the INSERT meets no conflict: the
\* tables it leaves at commit.
submit_poll_response(db, p_poll_id, p_user_id, p_answers) ==
    [responses |-> Append(db.responses,
        [poll_id |-> p_poll_id, user_id |-> p_user_id, answers |-> p_answers]),
     options |-> UpdateVoteCounts(db.options, p_answers)]

\* UniqueViolation never raised.
InsertConflicts_Never(responses, p_poll_id, p_user_id) == FALSE

\* The INSERT of submit_poll_response against the committed rows.
InsertConflicts(responses, p_poll_id, p_user_id) ==
    UniqueViolation(responses, p_poll_id, p_user_id)

Connected == [status |-> "idle", poll_id |-> None, user_id |-> None, answers |-> <<>>]
Ended(status) == [status |-> status, poll_id |-> None, user_id |-> None, answers |-> <<>>]

\* A session calls submit_poll_response and its INSERT is decided.  While
\* another transaction holds an uncommitted row with the same key the INSERT
\* waits; against a committed row it raises unique_violation and the call
\* fails with nothing written.
SubmitBegin(s, p_poll_id, p_user_id, p_answers) ==
    /\ sessions[s].status # "running"
    /\ \A t \in Sessions \ {s} :
        ~(/\ sessions[t].status = "running"
          /\ sessions[t].poll_id = Some(p_poll_id)
          /\ sessions[t].user_id = Some(p_user_id))
    /\ sessions' = [sessions EXCEPT ![s] =
        IF InsertConflicts(poll_responses, p_poll_id, p_user_id)
        THEN Ended("unique_violation")
        ELSE [status |-> "running", poll_id |-> Some(p_poll_id),
              user_id |-> Some(p_user_id), answers |-> p_answers]]
    /\ UNCHANGED <<polls, poll_options, poll_responses>>
    /\ UNCHANGED <<backVars, notifVars, pollVars, createVars, editVars>>

\* The call runs its loop and its transaction commits.
SubmitCommit(s) ==
    /\ sessions[s].status = "running"
    /\ LET done == submit_poll_response(
                      [responses |-> poll_responses, options |-> poll_options],
                      Get(sessions[s].poll_id), Get(sessions[s].user_id),
                      sessions[s].answers) IN
        /\ poll_responses' = done.responses
        /\ poll_options' = done.options
    /\ sessions' = [sessions EXCEPT ![s] = Ended("ok")]
    /\ UNCHANGED polls
    /\ UNCHANGED <<backVars, notifVars, pollVars, createVars, editVars>>

\* The transaction is rolled back (a deadlock on the option rows, a
\* cancelled statement, a lost connection).
SubmitAbort(s) ==
    /\ sessions[s].status = "running"
    /\ sessions' = [sessions EXCEPT ![s] = Ended("aborted")]
    /\ UNCHANGED <<polls, poll_options, poll_responses>>
    /\ UNCHANGED <<backVars, notifVars, pollVars, createVars, editVars>>

InitPollVotes ==
    /\ polls \in {[p \in PollIds |-> IF p = "p1" THEN row
                                     ELSE [is_active |-> TRUE, active_until |-> None]]
                    : row \in PollRows}
    /\ poll_options = NewOptions
    /\ poll_responses = <<>>
    /\ sessions = [s \in Sessions |-> Connected]
    /\ CreateIdle
    /\ EditIdle
    /\ NotifIdle
    /\ PollIdle
    /\ BackIdle

NextPollVotes ==
    \/ \E s \in Sessions, p_user_id \in Voters, p_answers \in AnswerArrays :
        SubmitBegin(s, "p1", p_user_id, p_answers)
    \/ \E s \in Sessions : SubmitCommit(s)
    \/ \E s \in Sessions : SubmitAbort(s)

SpecPollVotes == InitPollVotes /\ [][NextPollVotes]_vars

(***************************************************************************)
(* The notifications an admin manages (data/notifications.ts):             *)
(* addNotification, updateNotification, the clock, and the two readers.    *)
(* ret and call hold the last call, its arguments and its outcome while    *)
(* the table and the clock are as that call left them.                     *)
(***************************************************************************)
\* The most rows the notifications table holds in the model, the ids the
\* database gives them in turn, and the last day of the clock.
MaxNotifications == 1
NotificationIds == <<"n1", "n2", "n3">>
KnownIds == {""} \cup {NotificationIds[i] : i \in 1..MaxNotifications}
LastDay == Today + 1

\* CreateNotificationData, and UpdateNotificationData (a Partial: None is a
\* property that is not set, Some(None) one that is set to null).
CreateNotificationData ==
    [message : {Str(<<>>), Str(<<" ">>), Str(<<"a">>)},
     isActive : BOOLEAN,
     startTime : {None, Some(Today)},
     endTime : {None, Some(Today), Some(Today + 1)}]
UpdateNotificationData ==
    [message : {None, Some(Str(<<" ">>))},
     isActive : {None, Some(TRUE), Some(FALSE)},
     startTime : {None},
     endTime : {None, Some(None), Some(Some(Today))}]

\* !message?.trim() without the trim.
MessageMissing_Untrimmed(message) == Length(message) = 0

\* !message?.trim()
MessageMissing(message) == Length(Trim(message)) = 0

\* startTime && endTime && new Date(startTime) >= new Date(endTime)
EndsBeforeStart(startTime, endTime) ==
    IsSome(startTime) /\ IsSome(endTime) /\ Get(startTime) >= Get(endTime)

\* What addNotification throws before it reaches the database, if anything.
AddRejects(notificationData) ==
    IF MessageMissing(notificationData.message) THEN Some("Message is required")
    ELSE IF EndsBeforeStart(notificationData.startTime, notificationData.endTime)
    THEN Some("End time must be after start time")
    ELSE None

\* addNotification(notificationData); insertError is the database refusing
\* the insert.
AddNotification(notificationData, insertError) ==
    /\ (AddRejects(notificationData) = None /\ ~insertError)
        => Len(notifications) < MaxNotifications
    /\ IF AddRejects(notificationData) # None
       THEN /\ call' = [fn |-> "addNotification",
                        args |-> [id |-> "", data |-> Some(notificationData)], value |-> <<>>,
                        thrown |-> AddRejects(notificationData)]
            /\ UNCHANGED notifications
       ELSE IF insertError
       THEN /\ call' = [fn |-> "addNotification",
                        args |-> [id |-> "", data |-> Some(notificationData)], value |-> <<>>,
                        thrown |-> Some("Failed to add notification")]
            /\ UNCHANGED notifications
       ELSE LET data == [id |-> NotificationIds[Len(notifications) + 1],
                         isActive |-> notificationData.isActive,
                         startTime |-> notificationData.startTime,
                         endTime |-> notificationData.endTime,
                         target_filters |-> None] IN
            /\ notifications' = <<data>> \o notifications
            /\ call' = [fn |-> "addNotification",
                        args |-> [id |-> "", data |-> Some(notificationData)], value |-> <<data>>, thrown |-> None]
    /\ ret' = NoCall
    /\ UNCHANGED <<users, now>>
    /\ UNCHANGED <<pollVars, pagesVars>>

\* What updateNotification throws before it reaches the database, if anything.
UpdateRejects(id, updates) ==
    IF id = "" THEN Some("Notification ID is required")
    ELSE IF IsSome(updates.message) /\ MessageMissing(Get(updates.message))
    THEN Some("Message cannot be empty")
    ELSE IF /\ IsSome(updates.startTime) /\ IsSome(updates.endTime)
            /\ EndsBeforeStart(Get(updates.startTime), Get(updates.endTime))
    THEN Some("End time must be after start time")
    ELSE None

\* .update(updateData).eq('id', id): the properties that are set overwrite
\* the columns of the row.
Updated(n, updates) ==
    [n EXCEPT !.isActive = IF IsSome(updates.isActive) THEN Get(updates.isActive) ELSE @,
              !.startTime = IF IsSome(updates.startTime) THEN Get(updates.startTime) ELSE @,
              !.endTime = IF IsSome(updates.endTime) THEN Get(updates.endTime) ELSE @]

\* updateNotification(id, updates); updateError is the database refusing the
\* update.
UpdateNotification(id, updates, updateError) ==
    /\ IF UpdateRejects(id, updates) # None
       THEN /\ call' = [fn |-> "updateNotification",
                        args |-> [id |-> id, data |-> Some(updates)], value |-> <<>>,
                        thrown |-> UpdateRejects(id, updates)]
            /\ UNCHANGED notifications
       ELSE IF updateError
       THEN /\ call' = [fn |-> "updateNotification",
                        args |-> [id |-> id, data |-> Some(updates)], value |-> <<>>,
                        thrown |-> Some("Failed to update notification")]
            /\ UNCHANGED notifications
       ELSE /\ notifications' = [i \in DOMAIN notifications |->
                    IF notifications[i].id = id
                    THEN Updated(notifications[i], updates) ELSE notifications[i]]
            /\ call' = [fn |-> "updateNotification",
                        args |-> [id |-> id, data |-> Some(updates)], value |-> <<>>, thrown |-> None]
    /\ ret' = NoCall
    /\ UNCHANGED <<users, now>>
    /\ UNCHANGED <<pollVars, pagesVars>>

\* The isActive filter of the query dropped.
ActiveRows_AnyStatus(t) ==
    SelectSeq(notifications, LAMBDA n :
        /\ (n.startTime = None \/ Get(n.startTime) <= t)
        /\ (n.endTime = None \/ Get(n.endTime) >= t))

\* The query of getActiveNotifications at time t.
ActiveRows(t) == SelectSeq(notifications, LAMBDA n : ActiveQuery(n, t))

\* getActiveNotifications(); queryError is the query failing.
GetActiveNotifications(queryError) ==
    /\ call' = [fn |-> "getActiveNotifications", args |-> NoArgs,
                value |-> IF queryError THEN <<>> ELSE ActiveRows(now),
                thrown |-> None]
    /\ ret' = NoCall
    /\ UNCHANGED <<notifications, users, now>>
    /\ UNCHANGED <<pollVars, pagesVars>>

\* A day passes.
Tick ==
    /\ now < LastDay
    /\ now' = now + 1
    /\ ret' = NoCall
    /\ call' = NoOutcome
    /\ UNCHANGED <<notifications, users>>
    /\ UNCHANGED <<pollVars, pagesVars>>

InitNotifications ==
    /\ NotifIdle
    /\ PollIdle
    /\ PagesIdle

NextNotifications ==
    \/ \E notificationData \in CreateNotificationData, insertError \in BOOLEAN :
        AddNotification(notificationData, insertError)
    \/ \E id \in KnownIds, updates \in UpdateNotificationData,
          updateError \in BOOLEAN : UpdateNotification(id, updates, updateError)
    \/ \E queryError \in BOOLEAN : GetActiveNotifications(queryError)
    \/ \E userId \in {None} \cup {Some(u) : u \in UserIds},
          queryError \in BOOLEAN, userError \in BOOLEAN :
        GetActiveNotificationsForUser(userId, queryError, userError)
    \/ Tick

SpecNotifications == InitNotifications /\ [][NextNotifications]_vars

(***************************************************************************)
(* Leader ratings: the ratings table, the functions handle_new_rating and  *)
(* handle_rating_deletion, and the trigger on_rating_change, which runs    *)
(* update_leader_rating after every insert, update or delete of a ratings  *)
(* row.  A row is its key and its rating; the comment, the social          *)
(* behaviour and the timestamps take no part in the leader's figures.      *)
(* leaders.rating is a quotient, kept as numerator and denominator.        *)
(***************************************************************************)

LeaderIds == {"l1", "l2"}
RaterIds == {"u1", "u2"}
\* The arguments the callers pass; "l9" and "u9" are ids of no row.
LeaderArgs == LeaderIds \cup {"l9"}
RaterArgs == RaterIds \cup {"u9"}
RatingArgs == {0, 1, 5, 6}

\* The columns rating and reviewCount of a new leaders row.
NewLeader == [rating |-> [num |-> 0, den |-> 1], reviewCount |-> 0]

\* CHECK (rating >= 1 AND rating <= 5)
RatingCheck(rating) == rating >= 1 /\ rating <= 5

RECURSIVE SumRating(_)
SumRating(rows) ==
    IF rows = {} THEN 0
    ELSE LET r == CHOOSE r \in rows : TRUE IN r.rating + SumRating(rows \ {r})

\* SELECT ... FROM ratings WHERE "leaderId" = leaderId
RatingsOf(rows, leaderId) == {r \in rows : r.leaderId = leaderId}

\* AVG(rating): NULL over no rows.
AVG(rows) ==
    IF rows = {} THEN None
    ELSE Some([num |-> SumRating(rows), den |-> Cardinality(rows)])

COALESCE(value, default) == IF value = None THEN default ELSE Get(value)

\* The trigger function, for a row of the given leader; both of its branches
\* do the same update, for OLD."leaderId" or for NEW."leaderId".
update_leader_rating(db_leaders, db_ratings, leaderId) ==
    [db_leaders EXCEPT ![leaderId] =
        [reviewCount |-> Cardinality(RatingsOf(db_ratings, leaderId)),
         rating |-> COALESCE(AVG(RatingsOf(db_ratings, leaderId)), [num |-> 0, den |-> 1])]]

Conflicting_None(rows, leaderId, userId) == {}

\* The rows the primary key ("leaderId", "userId") sets against a new row.
Conflicting(rows, leaderId, userId) ==
    {r \in rows : r.leaderId = leaderId /\ r.userId = userId}

\* The insert raises: the CHECK on rating or a foreign key fails.
InsertRaises(p_leader_id, p_user_id, p_rating) ==
    \/ ~RatingCheck(p_rating)
    \/ p_leader_id \notin DOMAIN leaders
    \/ p_user_id \notin RaterIds

handle_new_rating(p_leader_id, p_user_id, p_rating) ==
    /\ LET row == [leaderId |-> p_leader_id, userId |-> p_user_id, rating |-> p_rating]
           old == Conflicting(ratings, p_leader_id, p_user_id)
           args == [fn |-> "handle_new_rating", p_leader_id |-> p_leader_id,
                    p_user_id |-> p_user_id, p_rating |-> p_rating]
       IN  IF InsertRaises(p_leader_id, p_user_id, p_rating)
           THEN /\ rated' = args @@ [raised |-> TRUE, branch |-> "none"]
                /\ UNCHANGED <<leaders, ratings>>
           ELSE /\ ratings' = (ratings \ old) \cup {row}
                /\ leaders' = update_leader_rating(leaders, ratings', p_leader_id)
                /\ rated' = args @@ [raised |-> FALSE,
                                     branch |-> IF old = {} THEN "insert" ELSE "update"]
    /\ UNCHANGED <<frontVars, adminVars>>

handle_rating_deletion(p_user_id, p_leader_id) ==
    /\ LET old == {r \in ratings : r.userId = p_user_id /\ r.leaderId = p_leader_id}
       IN  /\ ratings' = ratings \ old
           /\ leaders' = IF old = {} THEN leaders
                         ELSE update_leader_rating(leaders, ratings', p_leader_id)
           /\ rated' = [fn |-> "handle_rating_deletion", p_leader_id |-> p_leader_id,
                        p_user_id |-> p_user_id, p_rating |-> 0, raised |-> FALSE,
                        branch |-> IF old = {} THEN "none" ELSE "delete"]
    /\ UNCHANGED <<frontVars, adminVars>>

FrontIdle == NotifIdle /\ PollIdle /\ CreateIdle /\ EditIdle /\ VotesIdle

InitRatings ==
    /\ leaders = [l \in LeaderIds |-> NewLeader]
    /\ ratings = {}
    /\ rated = NoRated
    /\ AdminIdle
    /\ FrontIdle

NextRatings ==
    \/ \E p_leader_id \in LeaderArgs, p_user_id \in RaterArgs, p_rating \in RatingArgs :
        handle_new_rating(p_leader_id, p_user_id, p_rating)
    \/ \E p_user_id \in RaterArgs, p_leader_id \in LeaderArgs :
        handle_rating_deletion(p_user_id, p_leader_id)

SpecRatings == InitRatings /\ [][NextRatings]_vars

(***************************************************************************)
(* The admin area of one browser: handleLogin of AdminLoginPage,           *)
(* checkAdminAuth and adminLogout.  Each await is a step of its own, so    *)
(* the three may interleave; the login button is disabled while an attempt *)
(* runs.  A sign-in, a role lookup and getSession may fail.                *)
(***************************************************************************)

Accounts == {"a1", "u1"}
Roles == {"user", "admin", "super_admin"}
StorageKeys == {"admin_auth", "admin_user_id"}

IsAdminRole_Any(role) == TRUE

\* ['admin', 'super_admin'].includes(profile.role)
IsAdminRole(role) == role \in {"admin", "super_admin"}

\* supabase.auth.signInWithPassword, then the start of the role lookup.
LoginSignIn(user, authError) ==
    /\ login.pc = "idle"
    /\ IF authError
       THEN /\ login' = [pc |-> "idle", user |-> None, role |-> None,
                         outcome |-> "authError", wrote |-> FALSE]
            /\ UNCHANGED session
       ELSE /\ session' = Some(user)
            /\ login' = [pc |-> "signedIn", user |-> Some(user), role |-> None,
                         outcome |-> "none", wrote |-> FALSE]
    /\ UNCHANGED <<localStorage, profiles, check, logout, loggedOut>>
    /\ UNCHANGED <<frontVars, ratingVars>>

\* The role lookup returns: the attempt fails, starts the sign-out of a user
\* who is no admin, or stores the admin session.
LoginLookup(profileError) ==
    /\ login.pc = "signedIn"
    /\ LET role == profiles[Get(login.user)]
       IN  IF profileError
           THEN /\ login' = [login EXCEPT !.pc = "idle", !.outcome = "profileError"]
                /\ UNCHANGED <<localStorage, loggedOut>>
           ELSE IF ~IsAdminRole(role)
           THEN /\ login' = [login EXCEPT !.pc = "signingOut", !.role = Some(role)]
                /\ UNCHANGED <<localStorage, loggedOut>>
           ELSE /\ localStorage' = [localStorage EXCEPT !["admin_auth"] = Some("true"),
                                                        !["admin_user_id"] = login.user]
                /\ login' = [login EXCEPT !.pc = "idle", !.role = Some(role),
                                          !.outcome = "ok", !.wrote = TRUE]
                /\ loggedOut' = FALSE
    /\ UNCHANGED <<session, profiles, check, logout>>
    /\ UNCHANGED <<frontVars, ratingVars>>

\* supabase.auth.signOut of the refused user returns and the attempt fails.
LoginSignOut ==
    /\ login.pc = "signingOut"
    /\ session' = None
    /\ login' = [login EXCEPT !.pc = "idle", !.outcome = "denied"]
    /\ UNCHANGED <<localStorage, profiles, check, logout, loggedOut>>
    /\ UNCHANGED <<frontVars, ratingVars>>

SawAdminAuth_Always(storage) == TRUE

\* localStorage.getItem('admin_auth') === 'true'
SawAdminAuth(storage) == storage["admin_auth"] = Some("true")

\* checkAdminAuth up to its first return or to the start of the role lookup.
CheckBegin(getSessionThrows) ==
    /\ check.pc = "idle"
    /\ LET seen == [pc |-> "idle", session |-> session,
                    admin_auth |-> localStorage["admin_auth"], role |-> None,
                    value |-> "false", afterLogout |-> loggedOut]
       IN  IF getSessionThrows
           THEN check' = [seen EXCEPT !.session = None, !.admin_auth = None]
           ELSE IF session = None \/ ~SawAdminAuth(localStorage)
           THEN check' = seen
           ELSE check' = [seen EXCEPT !.pc = "lookup", !.value = "none"]
    /\ UNCHANGED <<session, localStorage, profiles, login, logout, loggedOut>>
    /\ UNCHANGED <<frontVars, ratingVars>>

\* The role lookup of checkAdminAuth returns; its error is not looked at, a
\* failed lookup gives profile null, which is the value returned.
CheckLookup(lookupFails) ==
    /\ check.pc = "lookup"
    /\ LET role == profiles[Get(check.session)]
       IN  IF lookupFails
           THEN check' = [check EXCEPT !.pc = "idle", !.value = "null"]
           ELSE check' = [check EXCEPT !.pc = "idle", !.role = Some(role),
                              !.value = IF IsAdminRole(role) THEN "true" ELSE "false"]
    /\ UNCHANGED <<session, localStorage, profiles, login, logout, loggedOut>>
    /\ UNCHANGED <<frontVars, ratingVars>>

\* adminLogout: supabase.auth.signOut returns.
LogoutSignOut ==
    /\ logout = "idle"
    /\ session' = None
    /\ logout' = "signedOut"
    /\ UNCHANGED <<localStorage, profiles, login, check, loggedOut>>
    /\ UNCHANGED <<frontVars, ratingVars>>

\* adminLogout: the two removeItem calls, and the browser goes to /admin/login.
LogoutClear ==
    /\ logout = "signedOut"
    /\ localStorage' = [localStorage EXCEPT !["admin_auth"] = None,
                                            !["admin_user_id"] = None]
    /\ logout' = "idle"
    /\ loggedOut' = TRUE
    /\ UNCHANGED <<session, profiles, login, check>>
    /\ UNCHANGED <<frontVars, ratingVars>>

\* Someone changes the role of a profile.
ChangeRole(user, role) ==
    /\ profiles[user] # role
    /\ profiles' = [profiles EXCEPT ![user] = role]
    /\ UNCHANGED <<session, localStorage, login, check, logout, loggedOut>>
    /\ UNCHANGED <<frontVars, ratingVars>>

InitAdmin ==
    /\ session = None
    /\ localStorage = [k \in StorageKeys |-> None]
    /\ profiles = [a \in Accounts |-> IF a = "a1" THEN "admin" ELSE "user"]
    /\ login = NoLogin
    /\ check = NoCheck
    /\ logout = "idle"
    /\ loggedOut = FALSE
    /\ RatingIdle
    /\ FrontIdle

NextAdmin ==
    \/ \E user \in Accounts, authError \in BOOLEAN : LoginSignIn(user, authError)
    \/ \E profileError \in BOOLEAN : LoginLookup(profileError)
    \/ LoginSignOut
    \/ \E getSessionThrows \in BOOLEAN : CheckBegin(getSessionThrows)
    \/ \E lookupFails \in BOOLEAN : CheckLookup(lookupFails)
    \/ LogoutSignOut
    \/ LogoutClear
    \/ \E user \in Accounts, role \in Roles : ChangeRole(user, role)

SpecAdmin == InitAdmin /\ [][NextAdmin]_vars

(***************************************************************************)
(* Properties of getActiveNotificationsForUser.  They read the value the   *)
(* last call returned (ret) against the tables it was computed from, which *)
(* no action of SpecAudience changes.                                      *)
(***************************************************************************)

\* The call ran its query; the viewer it was made for.
Fetched == ret.called /\ ~ret.queryError
LoggedIn == ret.userId # None
ProfileRead == LoggedIn /\ ~ret.userError
Viewer == users[Get(ret.userId)]
Returned(n) == Includes(ret.value, n)
Rows == {notifications[i] : i \in DOMAIN notifications}
InWindow(n) == ActiveQuery(n, now)

\* What the specification asks of each sub-filter.
ListSatisfied(l, attr) ==
    (IsSome(l) /\ Len(Get(l)) > 0) => (IsSome(attr) /\ Includes(Get(l), Get(attr)))
AgeSatisfied(f, age) ==
    /\ IsSome(f.age_min) => age >= Get(f.age_min)
    /\ IsSome(f.age_max) => age <= Get(f.age_max)
ListsSatisfied(f, v) ==
    /\ ListSatisfied(f.states, v.state)
    /\ ListSatisfied(f.constituencies, v.mpConstituency)
    /\ ListSatisfied(f.gender, v.gender)
SpecifiesAge(f) == IsSome(f.age_min) \/ IsSome(f.age_max)
AllEmpty(f) ==
    /\ \A l \in {f.states, f.constituencies, f.gender} : l = None \/ Get(l) = <<>>
    /\ ~SpecifiesAge(f)

\* C1: for a logged-in viewer without a birth date, a notification whose
\* target filter specifies age_min and/or age_max is never returned.
C1_AgeUnknownFailsClosed ==
    \A n \in Rows :
        (/\ Fetched /\ LoggedIn
         /\ Viewer.dateOfBirth = None
         /\ IsSome(n.target_filters)
         /\ SpecifiesAge(Get(n.target_filters)))
        => ~Returned(n)

\* C3: an active notification whose target filter object has every sub-filter
\* empty or absent is returned to every viewer, logged in or not, profile
\* read or not.
C3_EmptyFilterMatchesEveryone ==
    \A n \in Rows :
        (/\ Fetched /\ InWindow(n)
         /\ IsSome(n.target_filters)
         /\ AllEmpty(Get(n.target_filters)))
        => Returned(n)

\* C4: an active, in-window notification without target filters is returned
\* to every viewer, whatever the viewer's login and profile are.
C4_AbsentFilterMatchesEveryone ==
    \A n \in Rows :
        (Fetched /\ InWindow(n) /\ n.target_filters = None) => Returned(n)

C4_Witness ==
    /\ Fetched /\ ret.userId = None
    /\ \E n \in Rows : n.target_filters = None /\ InWindow(n) /\ Returned(n)

\* C5: when a state, constituency or gender list is non-empty and the
\* logged-in viewer's attribute is missing or not in it, the notification is
\* not returned, whatever the other sub-filters are.
C5_ListFailsClosed ==
    \A n \in Rows :
        (/\ Fetched /\ LoggedIn
         /\ IsSome(n.target_filters)
         /\ ~ListsSatisfied(Get(n.target_filters), Viewer))
        => ~Returned(n)

C5_Witness ==
    /\ Fetched /\ ProfileRead
    /\ \E n \in Rows :
        /\ InWindow(n) /\ IsSome(n.target_filters)
        /\ LET f == Get(n.target_filters) IN
            /\ f.states = Some(<<"Kerala", "Goa">>) /\ Viewer.state = None
            /\ ListSatisfied(f.constituencies, Viewer.mpConstituency)
            /\ f.gender = Some(<<"Female">>) /\ Viewer.gender = Some("Female")
            /\ ~SpecifiesAge(f)
        /\ ~Returned(n)

\* C6: for a logged-in viewer with every attribute present, a notification
\* with target filters is returned exactly when every specified sub-filter
\* (the three lists and the age range) is satisfied.
C6_AndAcrossSubFilters ==
    \A n \in Rows :
        (/\ Fetched /\ ProfileRead /\ InWindow(n)
         /\ IsSome(n.target_filters)
         /\ IsSome(Viewer.state) /\ IsSome(Viewer.mpConstituency)
         /\ IsSome(Viewer.gender) /\ IsSome(Viewer.dateOfBirth))
        => (Returned(n) <=>
               /\ ListsSatisfied(Get(n.target_filters), Viewer)
               /\ AgeSatisfied(Get(n.target_filters), Get(UserAge(Viewer, now))))

\* C7: when the viewer's age is available, the age check passes exactly when
\* age >= age_min and age <= age_max, for each bound that is specified.
C7_InclusiveAgeBounds ==
    \A n \in Rows :
        (/\ Fetched /\ ProfileRead /\ InWindow(n)
         /\ IsSome(Viewer.dateOfBirth)
         /\ IsSome(n.target_filters)
         /\ ListsSatisfied(Get(n.target_filters), Viewer))
        => (Returned(n) <=>
               AgeSatisfied(Get(n.target_filters), Get(UserAge(Viewer, now))))

\* C17: a viewer who is not logged in, or whose user record could not be
\* read, only receives notifications that have no target filter.
C17_AnonymousGetsUntargetedOnly ==
    (Fetched /\ ~ProfileRead) => \A n \in Rows : Returned(n) => n.target_filters = None

C17_Witness ==
    /\ Fetched /\ LoggedIn /\ ret.userError
    /\ \E n \in Rows :
        /\ InWindow(n) /\ IsSome(n.target_filters)
        /\ ListsSatisfied(Get(n.target_filters), Viewer)
        /\ ~Returned(n)

(***************************************************************************)
(* Properties of PollResults.  listed is the result as it was fetched, in  *)
(* the poll's own option order; view is what the last render showed.       *)
(***************************************************************************)

\* The component has rendered the fetched result.
Rendered == ~isLoading /\ listed # None /\ view.kind \in {"results", "empty", "threw"}
ListedAnswers(i) == Get(listed).questions[i].answers

\* The largest vote count of a question, and the positions that reach it.
MaxValue(answers) ==
    CHOOSE m \in {answers[i].value : i \in DOMAIN answers} :
        \A i \in DOMAIN answers : answers[i].value <= m
Leaders(answers) == {i \in DOMAIN answers : answers[i].value = MaxValue(answers)}
FirstLeader(answers) ==
    answers[CHOOSE i \in Leaders(answers) : \A j \in Leaders(answers) : i <= j]

\* C2: when two or more options of a question share the maximum vote count,
\* the winner shown is the one listed first in the poll's option order.
C2_TieGoesToFirstListed ==
    (Rendered /\ view.kind = "results") =>
        \A i \in DOMAIN view.questions :
            Cardinality(Leaders(ListedAnswers(i))) >= 2
            => view.questions[i].winner.name = FirstLeader(ListedAnswers(i)).name

\* The percentage the specification asks for: count / total, 0 when total is 0.
SpecPercent(count, total) ==
    IF total = 0 THEN Tenths(0)
    ELSE Tenths((2000 * count + total) \div (2 * total))

\* C8: every percentage shown for an option is count / total of its question,
\* and 0 (never NaN) when the question has no votes.
C8_PercentNeverNaN ==
    (Rendered /\ view.kind = "results") =>
        \A i \in DOMAIN view.questions :
            LET card == view.questions[i] IN
            /\ card.totalVotes = TotalVotes(ListedAnswers(i))
            /\ card.winnerPercent = SpecPercent(card.winner.value, card.totalVotes)
            /\ \A k \in DOMAIN card.options :
                card.options[k].percent =
                    SpecPercent(card.options[k].value, card.totalVotes)

\* C9: a result with totalResponses = 0 is shown as the no-responses state:
\* no winner, no percentage, nothing that could be NaN.
C9_NoResponsesShownEmpty ==
    (Rendered /\ Get(listed).totalResponses = 0) =>
        /\ view.kind = "empty"
        /\ view.popular = None
        /\ view.gender = <<>>
        /\ view.questions = <<>>

C9_Witness ==
    /\ Rendered
    /\ Get(listed).totalResponses = 0
    /\ Len(Get(listed).questions) = 2
    /\ TotalVotes(ListedAnswers(1)) = 0 /\ Len(ListedAnswers(1)) = 2
    /\ ListedAnswers(2) = <<>>
    /\ view.kind = "empty"

\* C10: every result with totalResponses > 0 renders to a defined output,
\* a question without answers included: the render raises no error.
C10_RenderIsTotal ==
    (Rendered /\ Get(listed).totalResponses > 0) => view.kind = "results"

(***************************************************************************)
(* Properties of the notification functions.                               *)
(***************************************************************************)
\* The rows the last call of a reader returned.
Shown ==
    {ret.value[i] : i \in DOMAIN ret.value}
        \cup (IF call.fn = "getActiveNotifications"
              THEN {call.value[i] : i \in DOMAIN call.value} ELSE {})

\* C16: both readers only return rows that are active and whose window
\* holds the current time, and once updateNotification has set isActive to
\* false the row stays out of what they return until an update sets it again.
C16_OnlyActiveInWindow ==
    /\ [](\A n \in Shown : n \in Rows /\ n.isActive /\ InWindow(n))
    /\ [][(/\ call'.fn = "updateNotification" /\ call'.thrown = None
           /\ Get(call'.args.data).isActive = Some(FALSE)
           /\ call' # call)
            => \A i \in DOMAIN notifications' :
                notifications'[i].id = call'.args.id => ~notifications'[i].isActive]_vars
    /\ [][\A i \in DOMAIN notifications :
            (~notifications[i].isActive /\ i \in DOMAIN notifications'
                /\ notifications'[i].id = notifications[i].id
                /\ notifications'[i].isActive)
                => /\ call'.fn = "updateNotification" /\ call'.thrown = None
                   /\ call'.args.id = notifications[i].id
                   /\ Get(call'.args.data).isActive = Some(TRUE)]_vars

C16_Witness ==
    /\ call.fn = "getActiveNotifications"
    /\ call.value = <<>>
    /\ \E n \in Rows :
        /\ ~n.isActive
        /\ (n.startTime = None \/ Get(n.startTime) <= now)
        /\ (n.endTime = None \/ Get(n.endTime) >= now)

OnlySpaces(message) == \A i \in 1..Len(message.chars) : message.chars[i] = " "

\* C18: addNotification given a message that is empty or only whitespace
\* throws 'Message is required', given both times with startTime >= endTime
\* throws 'End time must be after start time', and in both cases leaves the
\* table as it was.
C18_InvalidAddRejected ==
    /\ [](call.fn = "addNotification" =>
            LET notificationData == Get(call.args.data) IN
            /\ OnlySpaces(notificationData.message)
                => call.thrown = Some("Message is required")
            /\ (/\ ~OnlySpaces(notificationData.message)
                /\ IsSome(notificationData.startTime) /\ IsSome(notificationData.endTime)
                /\ Get(notificationData.startTime) >= Get(notificationData.endTime))
                => call.thrown = Some("End time must be after start time"))
    /\ [][(call'.fn = "addNotification" /\ IsSome(call'.thrown))
            => notifications' = notifications]_vars

C18_Witness ==
    /\ call.fn = "addNotification"
    /\ call.thrown = Some("Message is required")
    /\ Get(call.args.data).message = Str(<<" ">>)
    /\ Len(notifications) = 1

(***************************************************************************)
(* Properties of submit_poll_response.                                     *)
(***************************************************************************)
\* The number of entries of an answers array that select option o.
RECURSIVE EntriesFor(_, _)
EntriesFor(answers, o) ==
    IF answers = <<>> THEN 0
    ELSE (IF Head(answers).optionId = o THEN 1 ELSE 0) + EntriesFor(Tail(answers), o)

\* The number of entries of the stored responses that select option o.
RECURSIVE StoredEntriesFor(_, _)
StoredEntriesFor(responses, o) ==
    IF responses = <<>> THEN 0
    ELSE EntriesFor(Head(responses).answers, o) + StoredEntriesFor(Tail(responses), o)

\* The sum of vote_count over a set of options.
RECURSIVE SumVotes(_)
SumVotes(options) ==
    IF options = {} THEN 0
    ELSE LET o == CHOOSE x \in options : TRUE IN
         poll_options[o].vote_count + SumVotes(options \ {o})

RECURSIVE SumEntries(_)
SumEntries(options) ==
    IF options = {} THEN 0
    ELSE LET o == CHOOSE x \in options : TRUE IN
         StoredEntriesFor(poll_responses, o) + SumEntries(options \ {o})

OptionsOf(q) == {o \in OptionIds : poll_options[o].question_id = q}

\* C13: every option's vote_count is the number of answer entries of the
\* stored responses that select it, and the votes of a question, the sum of
\* its options' counts, are the entries that select one of its options.
C13_VoteCountMatchesResponses ==
    /\ \A o \in OptionIds :
        poll_options[o].vote_count = StoredEntriesFor(poll_responses, o)
    /\ \A q \in DOMAIN poll_questions :
        SumVotes(OptionsOf(q)) = SumEntries(OptionsOf(q))

C13_Witness ==
    /\ Len(poll_responses) = 2
    /\ poll_options["o1"].vote_count = 3
    /\ poll_options["o2"].vote_count = 1

\* The tables after the stored responses are submitted afresh in order perm.
RECURSIVE Replay(_, _, _)
Replay(db, responses, perm) ==
    IF perm = <<>> THEN db
    ELSE LET r == responses[Head(perm)] IN
         Replay(submit_poll_response(db, r.poll_id, r.user_id, r.answers),
                responses, Tail(perm))

Orders(n) == {perm \in [1..n -> 1..n] : \A i, j \in 1..n : perm[i] = perm[j] => i = j}

\* C14: submitting the stored responses, each from its own user, in any
\* order gives the vote counts the table holds.
C14_OrderInvariant ==
    \A perm \in Orders(Len(poll_responses)) :
        Replay([responses |-> <<>>, options |-> NewOptions], poll_responses, perm).options
            = poll_options

C14_Witness ==
    /\ Len(poll_responses) = 2
    /\ poll_responses[1].user_id # poll_responses[2].user_id
    /\ poll_responses[1].answers # poll_responses[2].answers
    /\ poll_responses[1].answers # <<>>
    /\ poll_responses[2].answers # <<>>

RowsOf(p_poll_id, p_user_id) ==
    {i \in 1..Len(poll_responses) :
        poll_responses[i].poll_id = p_poll_id /\ poll_responses[i].user_id = p_user_id}

\* C15: poll_responses never holds two rows of one user for one poll; a call
\* for a user whose response is stored does not get past its INSERT, and a
\* call that fails leaves the stored responses and the vote counts alone.
C15_OneResponsePerUser ==
    /\ [](\A p \in PollIds, u \in Voters : Cardinality(RowsOf(p, u)) <= 1)
    /\ [][\A s \in Sessions :
            /\ (sessions[s].status # "running" /\ sessions'[s].status = "running")
                => RowsOf(Get(sessions'[s].poll_id), Get(sessions'[s].user_id)) = {}
            /\ (sessions'[s] # sessions[s]
                    /\ sessions'[s].status \in {"unique_violation", "aborted"})
                => /\ poll_responses' = poll_responses
                   /\ poll_options' = poll_options]_vars

C15_Witness ==
    /\ Len(poll_responses) = 1
    /\ poll_responses[1].user_id = "u1"
    /\ poll_responses[1].answers # <<>>
    /\ sessions["s1"].status = "ok"
    /\ sessions["s2"].status = "unique_violation"

Accepting(p) ==
    /\ polls[p].is_active
    /\ polls[p].active_until = None \/ Get(polls[p].active_until) > now

\* C19: a stored response is for a poll that is active and not past its
\* active_until, and every option it counts is an option of that poll.
C19_VotesOnlyWhileActive ==
    \A i \in 1..Len(poll_responses) :
        /\ Accepting(poll_responses[i].poll_id)
        /\ \A k \in 1..Len(poll_responses[i].answers) :
            poll_questions[poll_options[poll_responses[i].answers[k].optionId].question_id].poll_id
                = poll_responses[i].poll_id

\* C11: rendering leaves its input as it was fetched: the answers of every
\* question keep their order and contents, so a second render starts from
\* the same data.
C11_RenderLeavesInputUnchanged ==
    Rendered => results = listed

\* C12: createPoll is never called with a target filter whose age_min is
\* greater than its age_max.
C12_AgeOrderValidated ==
    (IsSome(created) /\ IsSome(Get(created).target_filters)) =>
        LET f == Get(Get(created).target_filters) IN
            (IsSome(f.age_min) /\ IsSome(f.age_max)) => Get(f.age_min) <= Get(f.age_max)

SelectedStates == {form.target_filters.states[i] : i \in DOMAIN form.target_filters.states}

C25_AtLeastTwoOptionsSent ==
    IsSome(created) =>
        \A i \in DOMAIN Get(created).questions : Len(Get(created).questions[i].options) >= 2

\* C21: for every leader reviewCount is the number of its ratings rows and
\* rating is their average, 0 when there are none; there is at most one
\* row per (leader, user), and a rating by a user who already rated the
\* leader leaves that user's row holding the new rating.
C21_LeaderFiguresMatchRatings ==
    /\ \A l \in DOMAIN leaders :
        LET rows == {r \in ratings : r.leaderId = l}
        IN  /\ leaders[l].reviewCount = Cardinality(rows)
            /\ leaders[l].rating.den > 0
            /\ leaders[l].rating.num * Cardinality(rows) = SumRating(rows) * leaders[l].rating.den
            /\ rows = {} => leaders[l].rating.num = 0
    /\ \A r1 \in ratings, r2 \in ratings :
        r1.leaderId = r2.leaderId /\ r1.userId = r2.userId => r1 = r2
    /\ rated.fn = "handle_new_rating" /\ ~rated.raised =>
        [leaderId |-> rated.p_leader_id, userId |-> rated.p_user_id,
         rating |-> rated.p_rating] \in ratings
    /\ rated.fn = "handle_rating_deletion" =>
        \A r \in ratings : ~(r.leaderId = rated.p_leader_id /\ r.userId = rated.p_user_id)

\* A second rating by u1 has replaced the first, beside a rating by u2.
C21_Witness ==
    /\ rated.fn = "handle_new_rating" /\ rated.branch = "update"
    /\ rated.p_leader_id = "l1" /\ rated.p_rating = 5
    /\ leaders["l1"].reviewCount = 2
    /\ leaders["l1"].rating = [num |-> 6, den |-> 2]

\* The step at hand is the one in which handleLogin stores the admin session.
LoginWrites == login'.wrote /\ ~login.wrote

\* C22: handleLogin writes admin_auth = 'true' and admin_user_id only in an
\* attempt whose sign-in succeeded and whose user has the role admin or
\* super_admin; an attempt of a user with another role signs that user out
\* and writes neither key; a failed sign-in or a failed role lookup writes
\* neither key.
C22_AdminKeysOnlyForAdmins ==
    /\ [](login.wrote => IsSome(login.user) /\ login.outcome = "ok"
                          /\ login.role \in {Some("admin"), Some("super_admin")})
    /\ [][/\ LoginWrites =>
                /\ login.pc = "signedIn"
                /\ profiles[Get(login.user)] \in {"admin", "super_admin"}
                /\ localStorage' = [admin_auth |-> Some("true"), admin_user_id |-> login.user]
          /\ (\E k \in StorageKeys : localStorage'[k] # localStorage[k] /\ localStorage'[k] # None)
                => LoginWrites
          /\ login'.outcome = "denied" /\ login' # login =>
                /\ session' = None
                /\ localStorage' = localStorage
                /\ login.role \notin {Some("admin"), Some("super_admin")}
          /\ login'.outcome \in {"authError", "profileError"} /\ login' # login =>
                localStorage' = localStorage /\ ~login'.wrote]_vars

\* An admin has logged in, and so has a plain user, who was signed out.
C22_Witness ==
    /\ login.outcome = "denied"
    /\ login.user = Some("u1")
    /\ session = None
    /\ localStorage = [admin_auth |-> Some("true"), admin_user_id |-> Some("a1")]

====
